---- MODULE Spec2Model ----
(***************************************************************************)
(* Model of aws-resource.py: the per-account concurrent resource scan.     *)
(*                                                                         *)
(* Python strings that are formatted, compared or sorted are sequences of  *)
(* Unicode code points, so that formatting, substring tests and the        *)
(* lexicographic order of sorted() are computed and not assumed.  Names    *)
(* used only as dictionary keys or for dispatch stay TLA+ strings; Text    *)
(* gives the code points of such a name where it is formatted.             *)
(*                                                                         *)
(* Three specifications share the variables:                               *)
(*   Spec      the run of main(): accounts in sequence, each scanned by a  *)
(*             thread pool whose futures are tracked one by one.  It scans *)
(*             the two-entry excerpt RunChecks of the table, which keeps   *)
(*             every completion order of the futures within reach.         *)
(*   SpecPool  one account scan over the whole of RESOURCE_CHECKS, the     *)
(*             pool's occupancy kept as counts (futures run the same       *)
(*             function and are interchangeable for the occupancy).        *)
(*   SpecTask  one call of check_single_service on a bounded response.     *)
(***************************************************************************)
EXTENDS Integers, Sequences, FiniteSets, TLC

VARIABLES
    file,             \* accesskey.txt: "missing", or its lines (code points)
    creds,            \* parse_credentials' list of <<access_key, secret_key, name>>
    acct,             \* main's loop index into creds (1-based)
    pc,               \* position of the main thread
    enabled_regions,  \* check_aws_account's local: the discovered regions
    futures,          \* check_aws_account's local: the submitted tasks, in order
    fstate,           \* per future: "PENDING", "RUNNING" or "FINISHED"
    result,           \* per future: what future.result() gives once finished
    yielded,          \* futures already handed out by as_completed
    warnings_found,   \* check_aws_account's local list of finding strings
    section,          \* what the current account's scan has printed
    pool_queue,       \* SpecPool: work items waiting in the executor's queue
    pool_busy,        \* SpecPool: tasks a worker is executing
    pool_done,        \* SpecPool: tasks finished
    pool_seen,        \* SpecPool: futures as_completed has handed out
    call,             \* SpecTask: the arguments and the provider's response
    ret               \* SpecTask: what check_single_service returned

vars == <<file, creds, acct, pc, enabled_regions, futures, fstate, result,
          yielded, warnings_found, section, pool_queue, pool_busy, pool_done,
          pool_seen, call, ret>>

scanVars == <<enabled_regions, futures, fstate, result, yielded, warnings_found, section>>
poolVars == <<pool_queue, pool_busy, pool_done, pool_seen>>
taskVars == <<call, ret>>

-----------------------------------------------------------------------------
(* Bounds of the model. *)

MaxRegions == 2     \* longest region list region discovery returns
MaxItems == 3       \* longest listing a provider call returns (users, distributions, ...)
MaxKeys == 2        \* most keys list_keys returns
MaxInstances == 2   \* most instances of a region
MaxAccounts == 2    \* most lines of the credential file

-----------------------------------------------------------------------------
(* Strings. *)

\* Code points of the names that get formatted into findings or searched for.
Text(s) ==
    CASE s = "IAM Users" -> <<73, 65, 77, 32, 85, 115, 101, 114, 115>>
      [] s = "CloudFront (Enabled)" -> <<67, 108, 111, 117, 100, 70, 114, 111, 110, 116, 32, 40, 69, 110, 97, 98, 108, 101, 100, 41>>
      [] s = "WAFv2 ACLs (Global)" -> <<87, 65, 70, 118, 50, 32, 65, 67, 76, 115, 32, 40, 71, 108, 111, 98, 97, 108, 41>>
      [] s = "EC2 Instances" -> <<69, 67, 50, 32, 73, 110, 115, 116, 97, 110, 99, 101, 115>>
      [] s = "VPC" -> <<86, 80, 67>>
      [] s = "AMI" -> <<65, 77, 73>>
      [] s = "EBS Snapshots" -> <<69, 66, 83, 32, 83, 110, 97, 112, 115, 104, 111, 116, 115>>
      [] s = "EBS Volumes" -> <<69, 66, 83, 32, 86, 111, 108, 117, 109, 101, 115>>
      [] s = "EIP" -> <<69, 73, 80>>
      [] s = "AutoScalingGroups" -> <<65, 117, 116, 111, 83, 99, 97, 108, 105, 110, 103, 71, 114, 111, 117, 112, 115>>
      [] s = "KMS Keys (Disabled CMK)" -> <<75, 77, 83, 32, 75, 101, 121, 115, 32, 40, 68, 105, 115, 97, 98, 108, 101, 100, 32, 67, 77, 75, 41>>
      [] s = "ELB (v1)" -> <<69, 76, 66, 32, 40, 118, 49, 41>>
      [] s = "ELB (v2)" -> <<69, 76, 66, 32, 40, 118, 50, 41>>
      [] s = "EKS Clusters" -> <<69, 75, 83, 32, 67, 108, 117, 115, 116, 101, 114, 115>>
      [] s = "Lambda" -> <<76, 97, 109, 98, 100, 97>>
      [] s = "SecretManager" -> <<83, 101, 99, 114, 101, 116, 77, 97, 110, 97, 103, 101, 114>>
      [] s = "RDS" -> <<82, 68, 83>>
      [] s = "ECS Clusters" -> <<69, 67, 83, 32, 67, 108, 117, 115, 116, 101, 114, 115>>
      [] s = "ECR Repos" -> <<69, 67, 82, 32, 82, 101, 112, 111, 115>>
      [] s = "CodeBuild" -> <<67, 111, 100, 101, 66, 117, 105, 108, 100>>
      [] s = "WAFv2 ACLs (Regional)" -> <<87, 65, 70, 118, 50, 32, 65, 67, 76, 115, 32, 40, 82, 101, 103, 105, 111, 110, 97, 108, 41>>
      [] s = "us-east-1" -> <<117, 115, 45, 101, 97, 115, 116, 45, 49>>
      [] s = "ap-northeast-2" -> <<97, 112, 45, 110, 111, 114, 116, 104, 101, 97, 115, 116, 45, 50>>
      [] s = "AWSServiceRole" -> <<65, 87, 83, 83, 101, 114, 118, 105, 99, 101, 82, 111, 108, 101>>

\* The literal pieces of the f-strings (Korean text as code points).
IamPrefix == <<73, 65, 77, 32, 49324, 50857, 51088, 32>>   \* 'IAM \\uc0ac\\uc6a9\\uc790 '
IamSuffix == <<47749, 32, 48156, 44204, 58, 32>>   \* '\\uba85 \\ubc1c\\uacac: '
CommaSpace == <<44, 32>>   \* ', '
ResourceWord == <<32, 47532, 49548, 49828, 32>>   \* ' \\ub9ac\\uc18c\\uc2a4 '
FoundGlobal == <<44060, 32, 48156, 44204, 32, 40, 44544, 47196, 48268, 41>>   \* '\\uac1c \\ubc1c\\uacac (\\uae00\\ub85c\\ubc8c)'
FoundRegion == <<44060, 32, 48156, 44204, 32, 40, 47532, 51204, 58, 32>>   \* '\\uac1c \\ubc1c\\uacac (\\ub9ac\\uc804: '
CloseParen == <<41>>   \* ')'
AccountWord == <<44228, 51221, 32>>   \* '\\uacc4\\uc815 '

\* str(n) for n >= 0: the decimal digits.
RECURSIVE Str(_)
Str(n) == IF n < 10 THEN <<48 + n>> ELSE Str(n \div 10) \o <<48 + (n % 10)>>

\* Python's str < str: lexicographic by code point, a proper prefix first.
\* k is the first position where the strings differ or a ends.
StrLess(a, b) ==
    \E k \in 1..Len(b) :
        /\ \A j \in 1..(k - 1) : j <= Len(a) /\ a[j] = b[j]
        /\ k > Len(a) \/ a[k] < b[k]

\* sub in s (substring test).
Contains(sub, s) == \E k \in 0..(Len(s) - Len(sub)) : SubSeq(s, k + 1, k + Len(sub)) = sub

\* sep.join(parts)
RECURSIVE Join(_, _)
Join(sep, parts) ==
    IF parts = <<>> THEN <<>>
    ELSE IF Len(parts) = 1 THEN parts[1]
    ELSE parts[1] \o sep \o Join(sep, Tail(parts))

\* set(list)
ToSet(seq) == {seq[i] : i \in 1..Len(seq)}

\* list(set(list)): the distinct elements, in an order the caller must not
\* rely on (here: by first occurrence).
RECURSIVE ListOfSet(_)
ListOfSet(list) ==
    IF list = <<>> THEN <<>>
    ELSE CHOOSE r \in {IF x \in ToSet(front) THEN front ELSE Append(front, x) :
                           x \in {list[Len(list)]},
                           front \in {ListOfSet(SubSeq(list, 1, Len(list) - 1))}} : TRUE

\* sorted(list) for a list of strings: every element kept, ascending.
RECURSIVE Insert(_, _)
Insert(x, sorted) ==
    IF sorted = <<>> THEN <<x>>
    ELSE IF StrLess(x, Head(sorted)) THEN <<x>> \o sorted
    ELSE <<Head(sorted)>> \o Insert(x, Tail(sorted))

\* The last element x is inserted into the sorted front s; both are bound
\* once, as values.
RECURSIVE Sorted(_)
Sorted(list) ==
    IF list = <<>> THEN <<>>
    ELSE CHOOSE r \in {Insert(x, s) : x \in {list[Len(list)]},
                                     s \in {Sorted(SubSeq(list, 1, Len(list) - 1))}} : TRUE

-----------------------------------------------------------------------------
(* The registry. *)

\* RESOURCE_CHECKS in insertion order (the order .items() iterates in).
RESOURCE_CHECKS ==
    <<
       [name |-> "IAM Users", service_client |-> "iam", scope |-> "global", api_call |-> "list_users", result_key |-> "Users"],
       [name |-> "CloudFront (Enabled)", service_client |-> "cloudfront", scope |-> "global", api_call |-> "list_distributions", result_key |-> "DistributionList"],
       [name |-> "WAFv2 ACLs (Global)", service_client |-> "wafv2", scope |-> "global", api_call |-> "list_web_acls", result_key |-> "WebACLs"],
       [name |-> "EC2 Instances", service_client |-> "ec2", scope |-> "regional", api_call |-> "describe_instances", result_key |-> "Reservations"],
       [name |-> "VPC", service_client |-> "ec2", scope |-> "regional", api_call |-> "describe_vpcs", result_key |-> "Vpcs"],
       [name |-> "AMI", service_client |-> "ec2", scope |-> "regional", api_call |-> "describe_images", result_key |-> "Images"],
       [name |-> "EBS Snapshots", service_client |-> "ec2", scope |-> "regional", api_call |-> "describe_snapshots", result_key |-> "Snapshots"],
       [name |-> "EBS Volumes", service_client |-> "ec2", scope |-> "regional", api_call |-> "describe_volumes", result_key |-> "Volumes"],
       [name |-> "EIP", service_client |-> "ec2", scope |-> "regional", api_call |-> "describe_addresses", result_key |-> "Addresses"],
       [name |-> "AutoScalingGroups", service_client |-> "autoscaling", scope |-> "regional", api_call |-> "describe_auto_scaling_groups", result_key |-> "AutoScalingGroups"],
       [name |-> "KMS Keys (Disabled CMK)", service_client |-> "kms", scope |-> "regional", api_call |-> "list_keys", result_key |-> "Keys"],
       [name |-> "ELB (v1)", service_client |-> "elb", scope |-> "regional", api_call |-> "describe_load_balancers", result_key |-> "LoadBalancerDescriptions"],
       [name |-> "ELB (v2)", service_client |-> "elbv2", scope |-> "regional", api_call |-> "describe_load_balancers", result_key |-> "LoadBalancers"],
       [name |-> "EKS Clusters", service_client |-> "eks", scope |-> "regional", api_call |-> "list_clusters", result_key |-> "clusters"],
       [name |-> "Lambda", service_client |-> "lambda", scope |-> "regional", api_call |-> "list_functions", result_key |-> "Functions"],
       [name |-> "SecretManager", service_client |-> "secretsmanager", scope |-> "regional", api_call |-> "list_secrets", result_key |-> "SecretList"],
       [name |-> "RDS", service_client |-> "rds", scope |-> "regional", api_call |-> "describe_db_instances", result_key |-> "DBInstances"],
       [name |-> "ECS Clusters", service_client |-> "ecs", scope |-> "regional", api_call |-> "list_clusters", result_key |-> "clusterArns"],
       [name |-> "ECR Repos", service_client |-> "ecr", scope |-> "regional", api_call |-> "describe_repositories", result_key |-> "repositories"],
       [name |-> "CodeBuild", service_client |-> "codebuild", scope |-> "regional", api_call |-> "list_projects", result_key |-> "projects"],
       [name |-> "WAFv2 ACLs (Regional)", service_client |-> "wafv2", scope |-> "regional", api_call |-> "list_web_acls", result_key |-> "WebACLs"]
    >>

\* RESOURCE_CHECKS[resource_name]
ConfigOf(resource_name) ==
    LET i == CHOOSE k \in 1..Len(RESOURCE_CHECKS) : RESOURCE_CHECKS[k].name = resource_name
    IN  RESOURCE_CHECKS[i]

\* The regions region discovery may answer with.
Regions == {"us-east-1", "ap-northeast-2"}

\* Lists of regions of length lo..hi; the provider's answer is not checked
\* for repeats by the code, so repeats are among the answers.
RegionLists(lo, hi) == UNION {[1..n -> Regions] : n \in lo..hi}

-----------------------------------------------------------------------------
(* Dispatch: the submission loop of check_aws_account. *)

\* One submitted task: the arguments of check_single_service (the config is
\* RESOURCE_CHECKS[resource_name]; the session is the account's).
Task(resource_name, region) == [resource_name |-> resource_name, region |-> region]

\* Faulty variant of GlobalTasks: submitted inside the loop over the regions.
GlobalTasksPerRegion(entry, regions) ==
    [j \in 1..Len(regions) |-> Task(entry.name, "us-east-1")]

\* A global check is submitted once, for 'us-east-1'.
GlobalTasks(entry, regions) == <<Task(entry.name, "us-east-1")>>

\* Faulty variant of RegionalTasks: the anchor region passed instead of region.
RegionalTasksAnchor(entry, regions) ==
    [j \in 1..Len(regions) |-> Task(entry.name, "us-east-1")]

\* A regional check is submitted for every element of enabled_regions, in order.
RegionalTasks(entry, regions) == [j \in 1..Len(regions) |-> Task(entry.name, regions[j])]

\* The body of the loop over RESOURCE_CHECKS.items() for one entry.
TasksFor(entry, regions) ==
    IF entry.scope = "global" THEN GlobalTasks(entry, regions)
    ELSE IF entry.scope = "regional" THEN RegionalTasks(entry, regions)
    ELSE <<>>

\* The whole loop: the tasks in the order executor.submit is called.
RECURSIVE SubmitOrder(_, _)
SubmitOrder(checks, regions) ==
    IF checks = <<>> THEN <<>>
    ELSE TasksFor(Head(checks), regions) \o SubmitOrder(Tail(checks), regions)

\* ThreadPoolExecutor(max_workers=30)
max_workers == 30

\* Faulty variant of WorkerAvailable: a thread per work item.
WorkerAlwaysAvailable(busy) == TRUE

\* A work item leaves the queue only when one of the max_workers threads is free.
WorkerAvailable(busy) == busy < max_workers

-----------------------------------------------------------------------------
(* SpecPool: one account scan over the whole table, occupancy as counts. *)

\* Python values of the locals: None, a list, or not yet bound.
PyNone == [kind |-> "None", items |-> <<>>]
PyList(l) == [kind |-> "list", items |-> l]
Unbound == [kind |-> "unbound", items |-> <<>>]

\* 'if not x' for these values.
Falsy(v) == v.kind # "list" \/ v.items = <<>>

\* Values of the variables a specification does not use.
NoFile == [exists |-> FALSE, lines |-> <<>>]
NoCall ==
    [resource_name |-> "", region |-> "", world |-> <<>>,
     resp |-> [error |-> "none", items |-> <<>>]]
NoReturn == [kind |-> "pending", s |-> <<>>, exc |-> "none"]

PoolInit ==
    /\ file = NoFile /\ creds = <<>> /\ acct = 0
    /\ pc = "submit"
    /\ enabled_regions \in {PyList(l) : l \in RegionLists(1, MaxRegions)}
    /\ futures = <<>> /\ fstate = <<>> /\ result = <<>> /\ yielded = {}
    /\ warnings_found = <<>> /\ section = <<>>
    /\ pool_queue = 0 /\ pool_busy = 0 /\ pool_done = 0 /\ pool_seen = 0
    /\ call = NoCall /\ ret = NoReturn

\* executor.submit(...): the next task of the loop joins the work queue.
PoolSubmit ==
    /\ pc = "submit"
    /\ LET order == SubmitOrder(RESOURCE_CHECKS, enabled_regions.items) IN
       /\ Len(futures) < Len(order)
       /\ futures' = Append(futures, order[Len(futures) + 1])
       /\ pc' = IF Len(futures) + 1 = Len(order) THEN "collect" ELSE "submit"
    /\ pool_queue' = pool_queue + 1
    /\ UNCHANGED <<file, creds, acct, enabled_regions, fstate, result, yielded,
                   warnings_found, section, pool_busy, pool_done, pool_seen, call, ret>>

\* A free worker thread takes the oldest work item and starts running it.
PoolStart ==
    /\ pool_queue > 0
    /\ WorkerAvailable(pool_busy)
    /\ pool_queue' = pool_queue - 1
    /\ pool_busy' = pool_busy + 1
    /\ UNCHANGED <<file, creds, acct, pc, scanVars, pool_done, pool_seen, call, ret>>

\* check_single_service returns (or raises) in some worker.
PoolFinish ==
    /\ pool_busy > 0
    /\ pool_busy' = pool_busy - 1
    /\ pool_done' = pool_done + 1
    /\ UNCHANGED <<file, creds, acct, pc, scanVars, pool_queue, pool_seen, call, ret>>

\* as_completed hands out one more finished future.
PoolCollect ==
    /\ pc = "collect"
    /\ pool_seen < pool_done
    /\ pool_seen' = pool_seen + 1
    /\ UNCHANGED <<file, creds, acct, pc, scanVars, pool_queue, pool_busy, pool_done, call, ret>>

\* The as_completed loop ends and the with block is left.
PoolExit ==
    /\ pc = "collect"
    /\ pool_seen = Len(futures)
    /\ pc' = "report"
    /\ UNCHANGED <<file, creds, acct, scanVars, poolVars, call, ret>>

PoolNext == PoolSubmit \/ PoolStart \/ PoolFinish \/ PoolCollect \/ PoolExit

SpecPool == PoolInit /\ [][PoolNext]_vars

\* The submitted tasks of one registry entry, in submission order.
TasksOf(name) == SelectSeq(futures, LAMBDA t : t.resource_name = name)

\* The regions of a sequence of tasks.
RegionsOf(tasks) == [j \in 1..Len(tasks) |-> tasks[j].region]

\* C1: once the submission loop of an account scan is over, every global
\* entry of the table has exactly one submitted task, and its region is
\* 'us-east-1', whatever the enabled regions are.
C1_GlobalOnce ==
    pc # "submit" =>
        \A k \in 1..Len(RESOURCE_CHECKS) :
            RESOURCE_CHECKS[k].scope = "global" =>
                RegionsOf(TasksOf(RESOURCE_CHECKS[k].name)) = <<"us-east-1">>

\* C1 witness: the loop is over for two enabled regions, none of them the anchor.
C1_Witness ==
    /\ pc # "submit"
    /\ Len(enabled_regions.items) = 2
    /\ \A j \in 1..2 : enabled_regions.items[j] # "us-east-1"
    /\ Len(TasksOf("IAM Users")) = 1

\* C2: once the submission loop is over, the tasks of every regional entry
\* are one per element of the enabled-region list, region by region.
C2_RegionalPerRegion ==
    pc # "submit" =>
        \A k \in 1..Len(RESOURCE_CHECKS) :
            RESOURCE_CHECKS[k].scope = "regional" =>
                RegionsOf(TasksOf(RESOURCE_CHECKS[k].name)) = enabled_regions.items

\* C2 witness: the loop is over for two different regions and a regional
\* entry has its two tasks.
C2_Witness ==
    /\ pc # "submit"
    /\ enabled_regions.items = <<"ap-northeast-2", "us-east-1">>
    /\ Len(TasksOf("WAFv2 ACLs (Regional)")) = 2

\* C3: the number of tasks executing at once never exceeds max_workers.
C3_PoolBound == pool_busy <= max_workers

\* C3 witness: all workers are busy while further tasks wait in the queue.
C3_Witness == pool_busy = max_workers /\ pool_queue > 0

-----------------------------------------------------------------------------
(* check_single_service: one (check, region) task. *)

\* What a call gives its caller: a returned value (None or a str) or a raised
\* exception.  future.result() gives the same for the task's future.
ReturnedNone == [kind |-> "None", s |-> <<>>, exc |-> "none"]
Returned(str) == [kind |-> "str", s |-> str, exc |-> "none"]
Raised(e) == [kind |-> "raise", s |-> <<>>, exc |-> e]

\* What a provider call may raise: nothing, botocore's ClientError, another
\* BotoCoreError (connection, credentials, ...), or any other exception.
ErrorKinds == {"none", "ClientError", "BotoCoreError", "Exception"}

\* Faulty variant of Absorbed: 'except ClientError' only.
AbsorbedClientOnly(e) == e = "ClientError"

\* except (ClientError, BotoCoreError): pass
Absorbed(e) == e \in {"ClientError", "BotoCoreError"}

\* An exception leaving the try block: absorbed ones fall through to
\* 'return None', the others leave the function.
LeaveTry(e) == IF Absorbed(e) THEN ReturnedNone ELSE Raised(e)

\* Faulty variant of RegionalFinding: the region is left out.
RegionalFindingNoRegion(resource_name, n, region) ==
    Text(resource_name) \o ResourceWord \o Str(n) \o FoundRegion \o CloseParen

\* f"{resource_name} ... {n} ... (region: {region})"
RegionalFinding(resource_name, n, region) ==
    Text(resource_name) \o ResourceWord \o Str(n) \o FoundRegion \o Text(region) \o CloseParen

\* f"{resource_name} ... {n} ... (global)"
GlobalFinding(resource_name, n) ==
    Text(resource_name) \o ResourceWord \o Str(n) \o FoundGlobal

\* f"IAM ... {len(users)} ...: {', '.join(user_names)}"
IamFinding(users) ==
    IamPrefix \o Str(Len(users)) \o IamSuffix
        \o Join(CommaSpace, [j \in 1..Len(users) |-> users[j].UserName])

\* Faulty variant of IamKeeps: no user is filtered out.
IamKeepsAll(u) == TRUE

\* 'AWSServiceRole' not in u.get('Arn', '')
IamKeeps(u) == ~Contains(Text("AWSServiceRole"), u.Arn)

\* d.get('Enabled') == True
DistEnabled(d) == d.Enabled = TRUE

\* Faulty variant of KmsQualifies: every state but Enabled taken for disabled.
KmsQualifiesNotEnabled(metadata) ==
    metadata.KeyManager = "CUSTOMER" /\ metadata.KeyState # "Enabled"

\* metadata.get('KeyManager') == 'CUSTOMER' and metadata.get('KeyState') == 'Disabled'
KmsQualifies(metadata) ==
    metadata.KeyManager = "CUSTOMER" /\ metadata.KeyState = "Disabled"

\* The loop over the listed keys.  describe_key of a key raises
\* key.describe_error: a ClientError is passed over and the loop goes on,
\* anything else leaves the loop with the exception.
RECURSIVE KmsLoop(_, _)
KmsLoop(keys, disabled_customer_keys) ==
    IF keys = <<>> THEN [exc |-> "none", keys |-> disabled_customer_keys]
    ELSE LET key == Head(keys) IN
         IF key.describe_error = "ClientError"
         THEN KmsLoop(Tail(keys), disabled_customer_keys)
         ELSE IF key.describe_error # "none"
         THEN [exc |-> key.describe_error, keys |-> disabled_customer_keys]
         ELSE IF KmsQualifies(key.KeyMetadata)
         THEN KmsLoop(Tail(keys), Append(disabled_customer_keys, key))
         ELSE KmsLoop(Tail(keys), disabled_customer_keys)

\* resp is the provider's side of the call: resp.error is what building the
\* client or the listing call raises, resp.items the list the response holds
\* under result_key (for CloudFront: under result_key and 'Items').
check_single_service(resource_name, config, region, resp) ==
    IF resp.error # "none" THEN LeaveTry(resp.error)
    ELSE IF resource_name = "IAM Users" THEN
        LET users == SelectSeq(resp.items, IamKeeps) IN
        IF users # <<>> THEN Returned(IamFinding(users)) ELSE ReturnedNone
    ELSE IF resource_name = "CloudFront (Enabled)" THEN
        LET enabled_dists == SelectSeq(resp.items, DistEnabled) IN
        IF enabled_dists # <<>>
        THEN Returned(GlobalFinding(resource_name, Len(enabled_dists)))
        ELSE ReturnedNone
    ELSE IF resource_name = "KMS Keys (Disabled CMK)" THEN
        LET loop == KmsLoop(resp.items, <<>>) IN
        IF loop.exc # "none" THEN LeaveTry(loop.exc)
        ELSE IF loop.keys # <<>>
        THEN Returned(RegionalFinding(resource_name, Len(loop.keys), region))
        ELSE ReturnedNone
    ELSE IF resource_name = "WAFv2 ACLs (Global)" THEN
        IF resp.items # <<>>
        THEN Returned(GlobalFinding(resource_name, Len(resp.items)))
        ELSE ReturnedNone
    ELSE
        \* WAFv2 regional, AMI, EBS Snapshots, VPC, EC2 Instances and the
        \* default branch differ in the call's parameters only.
        IF resp.items # <<>>
        THEN Returned(RegionalFinding(resource_name, Len(resp.items), region))
        ELSE ReturnedNone

-----------------------------------------------------------------------------
(* The provider's responses, bounded. *)

\* Lists of length 0..n over a set.
ListsUpTo(S, n) == UNION {[1..k -> S] : k \in 0..n}

\* The metadata describe_key may return.
KeyMetadatas ==
    [KeyManager : {"CUSTOMER", "AWS"}, KeyState : {"Enabled", "Disabled", "PendingDeletion"}]

\* What describe_key does for one key: it raises, or returns metadata.
KeyLookups ==
    {[describe_error |-> "none", KeyMetadata |-> m] : m \in KeyMetadatas}
    \cup {[describe_error |-> e, KeyMetadata |-> [KeyManager |-> "AWS", KeyState |-> "Enabled"]] :
             e \in ErrorKinds \ {"none"}}

\* The listed keys: KeyId is the position in the listing.
KeyLists ==
    {[j \in 1..Len(l) |-> [KeyId |-> j, describe_error |-> l[j].describe_error,
                           KeyMetadata |-> l[j].KeyMetadata]] :
         l \in ListsUpTo(KeyLookups, MaxKeys)}

\* A call that raises before any listing is seen.
FailedResponses == {[error |-> e, items |-> <<>>] : e \in ErrorKinds \ {"none"}}

KmsResponses == FailedResponses \cup {[error |-> "none", items |-> l] : l \in KeyLists}

-----------------------------------------------------------------------------
(* SpecTask: one call of check_single_service. *)

\* The users list_users may return.  linked tells whether the provider made
\* the entry for one of its services; the code sees Arn and UserName only.
IamUsers ==
    {[UserName |-> <<97, 108, 105, 99, 101>>, linked |-> FALSE,
      Arn |-> <<97, 114, 110, 58, 97, 119, 115, 58, 105, 97, 109, 58, 58, 49, 58, 117, 115, 101, 114, 47, 97, 108, 105, 99, 101>>],
     [UserName |-> <<98, 111, 98>>, linked |-> FALSE,
      Arn |-> <<97, 114, 110, 58, 97, 119, 115, 58, 105, 97, 109, 58, 58, 49, 58, 117, 115, 101, 114, 47, 98, 111, 98>>],
     [UserName |-> <<65, 87, 83, 83, 101, 114, 118, 105, 99, 101, 82, 111, 108, 101, 70, 111, 114, 83, 117, 112, 112, 111, 114, 116>>, linked |-> TRUE,
      Arn |-> <<97, 114, 110, 58, 97, 119, 115, 58, 105, 97, 109, 58, 58, 49, 58, 117, 115, 101, 114, 47, 97, 119, 115, 45, 115, 101, 114, 118, 105, 99, 101, 45, 114, 111, 108, 101, 47, 65, 87, 83, 83, 101, 114, 118, 105, 99, 101, 82, 111, 108, 101, 70, 111, 114, 83, 117, 112, 112, 111, 114, 116>>]}

IamResponses ==
    FailedResponses \cup {[error |-> "none", items |-> l] : l \in ListsUpTo(IamUsers, MaxItems)}

\* The distributions list_distributions may return.
DistResponses ==
    FailedResponses
    \cup {[error |-> "none", items |-> [j \in 1..Len(l) |-> [Id |-> j, Enabled |-> l[j]]]] :
             l \in ListsUpTo(BOOLEAN, MaxItems)}

\* The instances of a region: each was launched in a reservation and is in
\* a lifecycle state.
InstanceStates == {"pending", "running", "stopping", "stopped", "terminated"}

InstanceWorlds ==
    {[j \in 1..Len(l) |-> [InstanceId |-> j, State |-> l[j].State,
                           ReservationId |-> l[j].ReservationId]] :
         l \in ListsUpTo([State : InstanceStates, ReservationId : 1..2], MaxInstances)}

\* describe_instances(Filters=[instance-state-name in states]): the provider
\* answers with the reservations that hold a matching instance, each with its
\* matching instances.
describe_instances(instances, states) ==
    LET matching == SelectSeq(instances, LAMBDA x : x.State \in states)
        of(rid) == SelectSeq(matching, LAMBDA x : x.ReservationId = rid)
        rids == SelectSeq(<<1, 2>>, LAMBDA rid : of(rid) # <<>>)
    IN  [j \in 1..Len(rids) |-> [ReservationId |-> rids[j], Instances |-> of(rids[j])]]

\* The Values of the instance-state-name filter.
InstanceStateFilter == {"pending", "running", "stopping", "stopped"}

\* The listings of the checks that report the length of the listing.
PlainResponses ==
    FailedResponses
    \cup {[error |-> "none", items |-> [j \in 1..n |-> [Id |-> j]]] : n \in 0..MaxItems}

\* The regions of a scan whose discovery names each region once.
DistinctRegions == <<"us-east-1", "ap-northeast-2">>

\* The (check, region) tasks such a scan dispatches over the whole table.
DispatchedTasks == ToSet(SubmitOrder(RESOURCE_CHECKS, DistinctRegions))

\* The calls of a task: its arguments with a response of the provider (for
\* the instance check also the instances the response was computed from).
CallsOf(t) ==
    IF t.resource_name = "EC2 Instances"
    THEN {[resource_name |-> t.resource_name, region |-> t.region, world |-> <<>>, resp |-> x] :
              x \in FailedResponses}
         \cup {[resource_name |-> t.resource_name, region |-> t.region, world |-> w,
                resp |-> [error |-> "none", items |-> describe_instances(w, InstanceStateFilter)]] :
                  w \in InstanceWorlds}
    ELSE {[resource_name |-> t.resource_name, region |-> t.region, world |-> <<>>, resp |-> x] :
              x \in (IF t.resource_name = "KMS Keys (Disabled CMK)" THEN KmsResponses
                     ELSE IF t.resource_name = "IAM Users" THEN IamResponses
                     ELSE IF t.resource_name = "CloudFront (Enabled)" THEN DistResponses
                     ELSE PlainResponses)}

TaskCalls == UNION {CallsOf(t) : t \in DispatchedTasks}

TaskInit ==
    /\ file = NoFile /\ creds = <<>> /\ acct = 0
    /\ pc = "task"
    /\ enabled_regions = Unbound
    /\ futures = <<>> /\ fstate = <<>> /\ result = <<>> /\ yielded = {}
    /\ warnings_found = <<>> /\ section = <<>>
    /\ pool_queue = 0 /\ pool_busy = 0 /\ pool_done = 0 /\ pool_seen = 0
    /\ call \in TaskCalls
    /\ ret = NoReturn

\* The task runs to its end.
RunTask ==
    /\ pc = "task"
    /\ ret' = check_single_service(call.resource_name, ConfigOf(call.resource_name),
                                   call.region, call.resp)
    /\ pc' = "task_done"
    /\ UNCHANGED <<file, creds, acct, scanVars, poolVars, call>>

TaskNext == RunTask

SpecTask == TaskInit /\ [][TaskNext]_vars

\* The keys of a listing whose manager is CUSTOMER and whose state is Disabled.
DisabledCustomerKeys(keys) ==
    {j \in 1..Len(keys) : /\ keys[j].KeyMetadata.KeyManager = "CUSTOMER"
                          /\ keys[j].KeyMetadata.KeyState = "Disabled"}

\* The listing and every metadata lookup of a call succeeded.
AllLookupsSucceed(c) ==
    /\ c.resp.error = "none"
    /\ \A j \in 1..Len(c.resp.items) : c.resp.items[j].describe_error = "none"

\* C10: when the key listing and every key's metadata lookup succeed, the
\* managed-key check returns no finding if no listed key is customer-managed
\* and Disabled, and otherwise the finding whose count is the number of such
\* keys: PendingDeletion, Enabled and provider-managed keys are not counted.
C10_KmsCount ==
    (/\ pc = "task_done"
     /\ call.resource_name = "KMS Keys (Disabled CMK)"
     /\ AllLookupsSucceed(call)) =>
        LET n == Cardinality(DisabledCustomerKeys(call.resp.items)) IN
        ret = IF n = 0 THEN ReturnedNone
              ELSE Returned(RegionalFinding(call.resource_name, n, call.region))

\* C10 witness: a listing with a Disabled customer key and a customer key in
\* PendingDeletion has been checked and a finding came back.
C10_Witness ==
    /\ pc = "task_done"
    /\ call.resource_name = "KMS Keys (Disabled CMK)"
    /\ AllLookupsSucceed(call)
    /\ Len(call.resp.items) = 2
    /\ call.resp.items[1].KeyMetadata = [KeyManager |-> "CUSTOMER", KeyState |-> "Disabled"]
    /\ call.resp.items[2].KeyMetadata = [KeyManager |-> "CUSTOMER", KeyState |-> "PendingDeletion"]
    /\ ret.kind = "str"

-----------------------------------------------------------------------------
(* parse_credentials *)

\* Whitespace that str.strip() removes.
IsSpace(c) == c \in {9, 10, 11, 12, 13, 28, 29, 30, 31, 32, 133, 160}

RECURSIVE LStrip(_)
LStrip(line) ==
    IF line # <<>> /\ IsSpace(Head(line)) THEN LStrip(Tail(line)) ELSE line

RECURSIVE RStrip(_)
RStrip(line) ==
    IF line # <<>> /\ IsSpace(line[Len(line)])
    THEN RStrip(SubSeq(line, 1, Len(line) - 1)) ELSE line

\* line.strip()
Strip(line) == RStrip(LStrip(line))

\* line.split(sep) for a one-character separator; cur is the field being read.
RECURSIVE SplitFrom(_, _, _)
SplitFrom(line, sep, cur) ==
    IF line = <<>> THEN <<cur>>
    ELSE IF Head(line) = sep THEN <<cur>> \o SplitFrom(Tail(line), sep, <<>>)
    ELSE SplitFrom(Tail(line), sep, Append(cur, Head(line)))

Split(line, sep) == SplitFrom(line, sep, <<>>)

\* One printed line: what was printed (tag) and, for a finding, its text.
Ev(tag) == [tag |-> tag, text |-> <<>>]
Line(text) == [tag |-> "warning", text |-> text]

\* The loop over enumerate(f) from line index i (0-based) on.
RECURSIVE ParseLines(_, _, _, _)
ParseLines(lines, i, credentials, printed) ==
    IF i >= Len(lines) THEN [credentials |-> credentials, printed |-> printed]
    ELSE LET line == Strip(lines[i + 1]) IN
         IF line = <<>> \/ Head(line) = 35
         THEN ParseLines(lines, i + 1, credentials, printed)
         ELSE LET fields == Split(line, 9) IN
              IF Len(fields) = 2
              THEN ParseLines(lines, i + 1,
                              Append(credentials,
                                     <<fields[1], fields[2], AccountWord \o Str(i + 1)>>),
                              printed)
              ELSE ParseLines(lines, i + 1, credentials,
                              Append(printed, Ev("malformed_line")))

parse_credentials(f) == ParseLines(f.lines, 0, <<>>, <<>>)

-----------------------------------------------------------------------------
(* get_enabled_regions and the thread pool of check_aws_account. *)

\* answer is the provider's side: what describe_regions (or building the
\* client) raises, and the region names of its response.  A ClientError is
\* printed and gives None; any other exception leaves the function.
get_enabled_regions(answer) ==
    IF answer.error = "none"
    THEN [exc |-> "none", value |-> PyList(answer.regions), printed |-> <<>>]
    ELSE IF answer.error = "ClientError"
    THEN [exc |-> "none", value |-> PyNone,
          printed |-> <<Ev("region_error"), Ev("region_hint")>>]
    ELSE [exc |-> answer.error, value |-> Unbound, printed |-> <<>>]

\* Faulty variant of AbortScan: 'if enabled_regions is None'.
AbortScanOnlyNone(v) == v.kind = "None"

\* if not enabled_regions: ... return
AbortScan(v) == Falsy(v)

\* Faulty variant of CollectWarnings: a raising task empties the list.
CollectWarningsDropOnError(r, warnings) ==
    IF r.kind = "raise" THEN <<>>
    ELSE IF r.kind = "str" /\ r.s # <<>> THEN Append(warnings, r.s) ELSE warnings

\* The body of the as_completed loop for one future: what it appends to
\* warnings_found and what it prints.
CollectWarnings(r, warnings) ==
    IF r.kind = "raise" THEN warnings
    ELSE IF r.kind = "str" /\ r.s # <<>> THEN Append(warnings, r.s) ELSE warnings

CollectPrints(r) == IF r.kind = "raise" THEN <<Ev("task_error")>> ELSE <<>>

\* Faulty variant of ReportReady: the futures are not waited for.
ReportReadyNoWait(handed, states) == TRUE

\* The as_completed loop has handed out every future and the with block has
\* joined the workers (shutdown(wait=True)).
ReportReady(handed, states) ==
    /\ handed = 1..Len(states)
    /\ \A i \in 1..Len(states) : states[i] = "FINISHED"

\* Faulty variants of ReportListing: without sorted(), without set().
ReportListingArrival(warnings) == ListOfSet(warnings)

ReportListingNoSet(warnings) == Sorted(warnings)

\* sorted(list(set(warnings_found)))
ReportListing(warnings) == Sorted(ListOfSet(warnings))

\* Faulty variant of ReportEvents: the listing is printed even when empty.
ReportEventsAlwaysListing(warnings) ==
    <<Ev("warning_header")>>
        \o [j \in 1..Len(ReportListing(warnings)) |-> Line(ReportListing(warnings)[j])]
        \o <<Ev("done")>>

\* The final output of check_aws_account.
ReportEvents(warnings) ==
    (IF warnings # <<>>
     THEN <<Ev("warning_header")>>
              \o (CHOOSE lines \in {[j \in 1..Len(l) |-> Line(l[j])] :
                                        l \in {ReportListing(warnings)}} : TRUE)
     ELSE <<Ev("clean")>>)
    \o <<Ev("done")>>

-----------------------------------------------------------------------------
(* Spec: the run of main(). *)

\* The part of the table the run scans: one global and one regional check.
RunChecks ==
    SelectSeq(RESOURCE_CHECKS,
              LAMBDA e : e.name \in {"CloudFront (Enabled)", "EC2 Instances"})

\* What the provider may answer to region discovery.
RegionAnswers ==
    {[error |-> e, regions |-> <<>>] : e \in ErrorKinds \ {"none"}}
    \cup {[error |-> "none", regions |-> l] : l \in RegionLists(0, MaxRegions)}

\* What the provider may answer to a task of the run: an error, an empty
\* listing or a listing of one item.
RunResponses(resource_name) ==
    FailedResponses
    \cup {[error |-> "none", items |-> <<>>]}
    \cup (IF resource_name = "CloudFront (Enabled)"
          THEN {[error |-> "none", items |-> <<[Id |-> 1, Enabled |-> b]>>] : b \in BOOLEAN}
          ELSE {[error |-> "none", items |-> <<[Id |-> 1]>>]})

\* Line k of the credential file: "AK<k>\tSK<k>\n".
ValidLine(k) == <<65, 75>> \o Str(k) \o <<9>> \o <<83, 75>> \o Str(k) \o <<10>>

\* The credential files of the run: none, or up to MaxAccounts records.
RunFiles ==
    {NoFile} \cup {[exists |-> TRUE, lines |-> [k \in 1..n |-> ValidLine(k)]] : n \in 0..MaxAccounts}

Init ==
    /\ file \in RunFiles
    /\ creds = <<>> /\ acct = 0
    /\ pc = "main"
    /\ enabled_regions = Unbound
    /\ futures = <<>> /\ fstate = <<>> /\ result = <<>> /\ yielded = {}
    /\ warnings_found = <<>> /\ section = <<>>
    /\ pool_queue = 0 /\ pool_busy = 0 /\ pool_done = 0 /\ pool_seen = 0
    /\ call = NoCall /\ ret = NoReturn

\* main: creds = parse_credentials(); a missing file ends the process
\* (sys.exit(1)), an empty list ends main.
ParseCredentials ==
    /\ pc = "main"
    /\ IF ~file.exists
       THEN /\ section' = <<Ev("file_missing")>>
            /\ pc' = "exit"
            /\ creds' = creds
       ELSE LET parsed == parse_credentials(file) IN
            /\ creds' = parsed.credentials
            /\ section' = parsed.printed
                            \o <<Ev(IF parsed.credentials = <<>> THEN "no_accounts" ELSE "total")>>
            /\ pc' = IF parsed.credentials = <<>> THEN "done" ELSE "loop"
    /\ UNCHANGED <<file, acct, enabled_regions, futures, fstate, result, yielded,
                   warnings_found, poolVars, taskVars>>

\* Faulty variant of LocalWarnings: one list shared by all the calls.
LocalWarningsShared(previous) == previous

\* warnings_found = []: the list is a local of the call, empty whatever the
\* call before left in its own.
LocalWarnings(previous) == <<>>

\* main's for loop takes the next account and calls check_aws_account, whose
\* locals start afresh.
NextAccount ==
    /\ pc = "loop"
    /\ acct < Len(creds)
    /\ acct' = acct + 1
    /\ enabled_regions' = Unbound
    /\ futures' = <<>> /\ fstate' = <<>> /\ result' = <<>> /\ yielded' = {}
    /\ warnings_found' = LocalWarnings(warnings_found)
    /\ section' = <<Ev("start")>>
    /\ pc' = "session"
    /\ UNCHANGED <<file, creds, poolVars, taskVars>>

\* main's for loop is exhausted.
MainReturn ==
    /\ pc = "loop"
    /\ acct = Len(creds)
    /\ pc' = "done"
    /\ UNCHANGED <<file, creds, acct, scanVars, poolVars, taskVars>>

\* boto3.Session(...): an exception is printed and the account is left.
CreateSession ==
    /\ pc = "session"
    /\ \E raises \in BOOLEAN :
           IF raises
           THEN /\ section' = Append(section, Ev("session_error"))
                /\ pc' = "loop"
           ELSE /\ section' = section
                /\ pc' = "regions"
    /\ UNCHANGED <<file, creds, acct, enabled_regions, futures, fstate, result, yielded,
                   warnings_found, poolVars, taskVars>>

\* enabled_regions = get_enabled_regions(session) and the test that follows.
\* An exception get_enabled_regions does not catch is caught nowhere: the
\* interpreter prints the traceback and the process ends.
GetEnabledRegions ==
    /\ pc = "regions"
    /\ \E answer \in RegionAnswers :
           LET r == get_enabled_regions(answer) IN
           IF r.exc # "none"
           THEN /\ enabled_regions' = enabled_regions
                /\ section' = Append(section \o r.printed, Ev("traceback"))
                /\ pc' = "crashed"
           ELSE /\ enabled_regions' = r.value
                /\ IF AbortScan(r.value)
                   THEN /\ section' = Append(section \o r.printed, Ev("abort"))
                        /\ pc' = "loop"
                   ELSE /\ section' = section \o r.printed
                        /\ pc' = "submit"
    /\ UNCHANGED <<file, creds, acct, futures, fstate, result, yielded,
                   warnings_found, poolVars, taskVars>>

\* executor.submit(...): the next task of the loop becomes a pending future.
Submit ==
    /\ pc = "submit"
    /\ LET order == SubmitOrder(RunChecks, enabled_regions.items) IN
       /\ Len(futures) < Len(order)
       /\ futures' = Append(futures, order[Len(futures) + 1])
       /\ pc' = IF Len(futures) + 1 = Len(order) THEN "collect" ELSE "submit"
    /\ fstate' = Append(fstate, "PENDING")
    /\ result' = Append(result, NoReturn)
    /\ UNCHANGED <<file, creds, acct, enabled_regions, yielded, warnings_found,
                   section, poolVars, taskVars>>

\* Faulty variant of AfterRun: a task that raised is queued again.
AfterRunRetry(r) == IF r.kind = "raise" THEN "PENDING" ELSE "FINISHED"

\* The state of a future once its task has returned or raised: it is
\* finished either way, and nothing submits it again.
AfterRun(r) == "FINISHED"

\* The futures a worker is executing.
Running == {i \in 1..Len(fstate) : fstate[i] = "RUNNING"}

\* Faulty variant of NextWorkItem: pending work is dropped once a task
\* has raised.
NextWorkItemUnlessFailed(states, results, i) ==
    /\ states[i] = "PENDING"
    /\ \A j \in 1..(i - 1) : states[j] # "PENDING"
    /\ \A j \in 1..Len(results) : results[j].kind # "raise"

\* Future i is the head of the executor's work queue: the oldest pending
\* one, whatever the other tasks have returned or raised.
NextWorkItem(states, results, i) ==
    /\ states[i] = "PENDING"
    /\ \A j \in 1..(i - 1) : states[j] # "PENDING"

\* A free worker thread takes the oldest pending work item.
WorkerStart ==
    /\ \E i \in 1..Len(fstate) :
           /\ NextWorkItem(fstate, result, i)
           /\ WorkerAvailable(Cardinality(Running))
           /\ fstate' = [fstate EXCEPT ![i] = "RUNNING"]
    /\ UNCHANGED <<file, creds, acct, pc, enabled_regions, futures, result, yielded,
                   warnings_found, section, poolVars, taskVars>>

\* check_single_service ends in its worker: the future holds what it
\* returned or raised.
WorkerFinish ==
    /\ \E i \in Running :
       \E resp \in RunResponses(futures[i].resource_name) :
           LET r == check_single_service(futures[i].resource_name,
                                         ConfigOf(futures[i].resource_name),
                                         futures[i].region, resp)
           IN  /\ result' = [result EXCEPT ![i] = r]
               /\ fstate' = [fstate EXCEPT ![i] = AfterRun(r)]
    /\ UNCHANGED <<file, creds, acct, pc, enabled_regions, futures, yielded,
                   warnings_found, section, poolVars, taskVars>>

\* One iteration of 'for future in as_completed(futures)'.
Collect ==
    /\ pc = "collect"
    /\ \E i \in (1..Len(futures)) \ yielded :
           /\ fstate[i] = "FINISHED"
           /\ yielded' = yielded \cup {i}
           /\ warnings_found' = CollectWarnings(result[i], warnings_found)
           /\ section' = section \o CollectPrints(result[i])
    /\ UNCHANGED <<file, creds, acct, pc, enabled_regions, futures, fstate, result,
                   poolVars, taskVars>>

\* The loop and the with block are left; the result is printed and
\* check_aws_account returns.
Report ==
    /\ pc = "collect"
    /\ ReportReady(yielded, fstate)
    /\ section' = section \o ReportEvents(warnings_found)
    /\ pc' = "loop"
    /\ UNCHANGED <<file, creds, acct, enabled_regions, futures, fstate, result, yielded,
                   warnings_found, poolVars, taskVars>>

Next ==
    \/ ParseCredentials \/ NextAccount \/ MainReturn
    \/ CreateSession \/ GetEnabledRegions
    \/ Submit \/ WorkerStart \/ WorkerFinish \/ Collect \/ Report

Spec == Init /\ [][Next]_vars

\* A step of an account's scan, by the main thread or by a worker.
ScanStep == Submit \/ WorkerStart \/ WorkerFinish \/ Collect \/ Report

\* The run with its scheduling: while a step of the scan can be taken (the
\* main thread in its loops, a free worker with pending work, a call of a
\* task that returns or raises), one is taken.
SpecLive == Init /\ [][Next]_vars /\ WF_vars(ScanStep)

-----------------------------------------------------------------------------
(* Properties of the run. *)

\* Something with this tag was printed for the current account.
Printed(tag) == \E j \in 1..Len(section) : section[j].tag = tag

CountPrinted(tag) == Cardinality({j \in 1..Len(section) : section[j].tag = tag})

\* The finding lines of the printed report, in printed order.
ReportLines ==
    LET lines == SelectSeq(section, LAMBDA e : e.tag = "warning")
    IN  [j \in 1..Len(lines) |-> lines[j].text]

\* check_aws_account has printed its closing line.
Reported == Printed("done")

\* The futures whose task returned a finding string, and those strings.
WithFinding(S) == {i \in S : result[i].kind = "str"}
FindingsOf(S) == {result[i].s : i \in WithFinding(S)}

Unfinished == {i \in 1..Len(fstate) : fstate[i] # "FINISHED"}

\* C4: when main goes on to the next account, every task of the account
\* before it has finished and, if it had tasks, its report has been printed;
\* and only the main thread between two calls moves to the next account.
C4_AccountsInSequence ==
    [][acct' # acct =>
          /\ Unfinished = {}
          /\ futures # <<>> => Reported
          /\ pc = "loop"]_vars

\* C4 witness: a task of the second account is running.
C4_Witness == acct = 2 /\ Running # {}

\* C5: once the loop has met a task that raised, the run has not ended on
\* it, one diagnostic per such task is printed, every finding handed out so
\* far is kept, and the closing report is printed only with every future
\* finished and handed out and holds exactly the findings the tasks returned.
C5_FaultIsolation ==
    LET raised == {i \in yielded : result[i].kind = "raise"} IN
    raised # {} =>
        /\ pc \in {"collect", "loop", "done"}
        /\ CountPrinted("task_error") = Cardinality(raised)
        /\ ToSet(warnings_found) = FindingsOf(yielded)
        /\ Reported =>
              /\ Unfinished = {}
              /\ yielded = 1..Len(futures)
              /\ ToSet(ReportLines) = FindingsOf(1..Len(futures))

\* C5 witness: a report of two findings was printed although a task raised.
C5_Witness ==
    /\ Reported
    /\ \E i \in 1..Len(result) : result[i].kind = "raise"
    /\ Len(ReportLines) = 2

\* Strictly ascending in Python's string order.
IsAscending(lines) == \A j \in 1..(Len(lines) - 1) : StrLess(lines[j], lines[j + 1])

\* C6: the printed report is the ascending listing of the set of findings
\* the tasks returned, whatever the order they completed and arrived in.
C6_ReportOrderFree ==
    Reported =>
        /\ IsAscending(ReportLines)
        /\ ToSet(ReportLines) = FindingsOf(1..Len(futures))

\* C6 witness: the findings arrived in descending order and were reported.
C6_Witness ==
    /\ Reported
    /\ Len(warnings_found) >= 2
    /\ StrLess(warnings_found[2], warnings_found[1])

\* C7: no string is printed twice in the report, and every finding string a
\* task returned is printed.
C7_Dedup ==
    Reported =>
        /\ \A j, k \in 1..Len(ReportLines) : ReportLines[j] = ReportLines[k] => j = k
        /\ \A s \in FindingsOf(1..Len(futures)) :
               \E j \in 1..Len(ReportLines) : ReportLines[j] = s

\* C7 witness: two tasks returned the same string and the report is printed.
C7_Witness ==
    /\ Reported
    /\ \E i, k \in WithFinding(1..Len(result)) : i # k /\ result[i].s = result[k].s

\* Region discovery failed (it gave None or raised) or gave no region.
DiscoveryFailed ==
    \/ enabled_regions.kind = "None"
    \/ enabled_regions.kind = "list" /\ enabled_regions.items = <<>>
    \/ pc = "crashed"

\* C8: after a failed or empty region discovery no task is submitted for the
\* account and neither a report nor the clean message is printed for it.
C8_NoScanWithoutRegions ==
    DiscoveryFailed =>
        /\ futures = <<>>
        /\ ~Printed("warning_header") /\ ~Printed("warning") /\ ~Printed("clean")

\* C8 witness: discovery gave an empty list and the account was left.
C8_Witness == enabled_regions = PyList(<<>>) /\ pc = "loop" /\ Printed("abort")

\* C9 (as claimed): with the credential file present no failure ends the
\* process, and it ends only after the last account was taken up.
C9_OnlyMissingFileEndsRun ==
    file.exists =>
        /\ pc # "crashed"
        /\ pc \in {"exit", "done"} => acct = Len(creds)

-----------------------------------------------------------------------------
(* Further properties of one task. *)

\* The errors the provider's SDK raises: ClientError and the BotoCoreErrors.
ProviderErrors == {"ClientError", "BotoCoreError"}

\* The keys of a listing whose lookup succeeded and that qualify.
LookedUpDisabledCustomerKeys(keys) ==
    {j \in DisabledCustomerKeys(keys) : keys[j].describe_error = "none"}

\* C11 (as claimed): when the listing succeeds and the lookups of some keys
\* raise provider errors, only those keys are left out: the result is the
\* finding for the other qualifying keys, or None if there is none.
C11_LookupErrorsLocal ==
    (/\ pc = "task_done"
     /\ call.resource_name = "KMS Keys (Disabled CMK)"
     /\ call.resp.error = "none"
     /\ \A j \in 1..Len(call.resp.items) :
            call.resp.items[j].describe_error \in ProviderErrors \cup {"none"}) =>
        LET n == Cardinality(LookedUpDisabledCustomerKeys(call.resp.items)) IN
        ret = IF n = 0 THEN ReturnedNone
              ELSE Returned(RegionalFinding(call.resource_name, n, call.region))

\* C12: a provider error raised by building the client or by the listing
\* call makes the task return None: nothing is raised to the collecting loop,
\* which prints no diagnostic and adds no finding for it.
C12_ProviderErrorAbsorbed ==
    (pc = "task_done" /\ call.resp.error \in ProviderErrors) =>
        /\ ret = ReturnedNone
        /\ CollectPrints(ret) = <<>>
        /\ CollectWarnings(ret, <<>>) = <<>>

\* C12 witness: the listing call of a regional check raised a BotoCoreError
\* and the task returned None.
C12_Witness ==
    /\ pc = "task_done"
    /\ call.resource_name = "RDS"
    /\ call.resp.error = "BotoCoreError"
    /\ ret = ReturnedNone

\* The listed users that are not service-linked, in listing order.
OwnUsers(users) == SelectSeq(users, LAMBDA u : ~u.linked)

\* C13: when list_users succeeds, the identity-user check returns None if
\* no listed user is left after leaving out the service-linked ones, and
\* otherwise the finding whose count is the number of the others and whose
\* detail is their names, in listing order, and no other name.
C13_IamUsers ==
    (/\ pc = "task_done"
     /\ call.resource_name = "IAM Users"
     /\ call.resp.error = "none") =>
        LET own == OwnUsers(call.resp.items) IN
        ret = IF own = <<>> THEN ReturnedNone
              ELSE Returned(IamPrefix \o Str(Len(own)) \o IamSuffix
                            \o Join(CommaSpace, [j \in 1..Len(own) |-> own[j].UserName]))

\* C13 witness: three users were listed, one of them service-linked, and a
\* finding came back.
C13_Witness ==
    /\ pc = "task_done"
    /\ call.resource_name = "IAM Users"
    /\ call.resp.error = "none"
    /\ Len(call.resp.items) = 3
    /\ Len(OwnUsers(call.resp.items)) = 2
    /\ ret.kind = "str"

\* The instances of a region that are pending, running, stopping or stopped.
LiveInstances(instances) ==
    {j \in 1..Len(instances) : instances[j].State \in {"pending", "running", "stopping", "stopped"}}

\* C14 (as claimed): when describe_instances succeeds, the compute-instance
\* check returns None for a region without a pending, running, stopping or
\* stopped instance, and otherwise the finding whose count is the number of
\* such instances, however they are grouped into reservations.
C14_InstanceCount ==
    (/\ pc = "task_done"
     /\ call.resource_name = "EC2 Instances"
     /\ call.resp.error = "none") =>
        LET n == Cardinality(LiveInstances(call.world)) IN
        ret = IF n = 0 THEN ReturnedNone
              ELSE Returned(RegionalFinding(call.resource_name, n, call.region))

-----------------------------------------------------------------------------
(* Further properties of the run. *)

\* C15: within one account scan no more futures are submitted than the
\* submission loop has (check, region) pairs, a submitted future keeps its
\* task, a running future is never pending again, and a finished future
\* stays finished with the result it has: no task is run a second time.
C15_NoRetry ==
    [][acct' = acct =>
          /\ Len(futures') <= Len(SubmitOrder(RunChecks, enabled_regions'.items))
          /\ \A i \in 1..Len(fstate) :
                /\ i <= Len(fstate') /\ futures'[i] = futures[i]
                /\ fstate[i] = "RUNNING" => fstate'[i] \in {"RUNNING", "FINISHED"}
                /\ fstate[i] = "FINISHED" =>
                       fstate'[i] = "FINISHED" /\ result'[i] = result[i]]_vars

\* C15 witness: a task has raised, it stays finished and not in the
\* findings while another task is still running.
C15_Witness ==
    /\ \E i \in 1..Len(fstate) : fstate[i] = "FINISHED" /\ result[i].kind = "raise"
    /\ Running # {}
    /\ warnings_found = <<>>

-----------------------------------------------------------------------------
(* parse_credentials on its own: the loader applied to bounded files. *)

MaxLines == 3

\* Lines a credential file may hold: two records, a blank line, a comment,
\* a line of one field and a line of three fields.
FileLines ==
    {ValidLine(1), ValidLine(2),
     <<10>>,
     <<35, 32, 107, 10>>,
     <<65, 75, 49, 10>>,
     <<65, 9, 66, 9, 67, 10>>}

\* The credential files of up to MaxLines lines, and the missing file.
ParseFiles ==
    {NoFile} \cup {[exists |-> TRUE, lines |-> l] : l \in ListsUpTo(FileLines, MaxLines)}

ParseInit ==
    /\ file \in ParseFiles
    /\ creds = <<>> /\ acct = 0
    /\ pc = "main"
    /\ enabled_regions = Unbound
    /\ futures = <<>> /\ fstate = <<>> /\ result = <<>> /\ yielded = {}
    /\ warnings_found = <<>> /\ section = <<>>
    /\ pool_queue = 0 /\ pool_busy = 0 /\ pool_done = 0 /\ pool_seen = 0
    /\ call = NoCall /\ ret = NoReturn

SpecParse == ParseInit /\ [][ParseCredentials]_vars

\* A line that yields a record: not blank, not a comment, two fields.
IsRecordLine(l) ==
    LET line == Strip(l) IN
    line # <<>> /\ Head(line) # 35 /\ Len(Split(line, 9)) = 2

\* A line that is reported: neither skipped silently nor a record.
IsMalformedLine(l) ==
    LET line == Strip(l) IN
    line # <<>> /\ Head(line) # 35 /\ Len(Split(line, 9)) # 2

\* C16: once the file is loaded, the records are the record lines in file
\* order, one report is printed per malformed line, and the k-th record
\* carries the label of k.
C16_LoaderLabels ==
    (pc \in {"loop", "done"} /\ file.exists) =>
        LET records == SelectSeq(file.lines, IsRecordLine)
            bad == SelectSeq(file.lines, IsMalformedLine)
        IN  /\ Len(creds) = Len(records)
            /\ CountPrinted("malformed_line") = Len(bad)
            /\ \A k \in 1..Len(creds) :
                  /\ creds[k][1] = Split(Strip(records[k]), 9)[1]
                  /\ creds[k][2] = Split(Strip(records[k]), 9)[2]
                  /\ creds[k][3] = AccountWord \o Str(k)


\* A step taken during the scan stays in the account and keeps the futures
\* submitted so far.
ScanKeepsFutures ==
    pc \in {"submit", "collect"} =>
        /\ acct' = acct
        /\ Len(futures') >= Len(futures)
        /\ \A i \in 1..Len(futures) : futures'[i] = futures[i]

\* C17: from the submit loop on, whatever the tasks do, the scan comes to
\* the point where every task of the submission loop has been submitted,
\* every future is finished and the closing report is printed; the report is
\* printed only with every future finished and handed out; and during the
\* scan the account is not left and no submitted future is dropped.
C17_NoCancellation ==
    /\ (pc = "submit")
           ~> (/\ Reported
               /\ Len(futures) = Len(SubmitOrder(RunChecks, enabled_regions.items))
               /\ Unfinished = {})
    /\ [](Reported => Unfinished = {} /\ yielded = 1..Len(futures))
    /\ [][ScanKeepsFutures]_vars

\* C17 witness: the first task raised, every task submitted after it has
\* returned, and the report is printed.
C17_Witness ==
    /\ Reported
    /\ Len(futures) = 1 + MaxRegions
    /\ result[1].kind = "raise"
    /\ \A i \in 2..Len(result) : result[i].kind \in {"str", "None"}


\* C18: at every point of every interleaving the collected findings are
\* exactly the strings returned by the tasks of the current account handed
\* out so far, and the lines of the closing report are, as a set, exactly
\* the strings returned by the tasks of this account.
C18_NoLostNoSpurious ==
    /\ ToSet(warnings_found) = FindingsOf(yielded)
    /\ \A j \in 1..Len(ReportLines) :
          \E i \in 1..Len(result) : result[i] = Returned(ReportLines[j])
    /\ Reported =>
          \A i \in 1..Len(result) :
              result[i].kind = "str" =>
                  \E j \in 1..Len(ReportLines) : ReportLines[j] = result[i].s

\* C18 witness: in the scan of the second account two tasks with findings
\* have completed and wait together to be handed out, after a first finding
\* was collected.
C18_Witness ==
    /\ acct = 2 /\ pc = "collect"
    /\ warnings_found # <<>>
    /\ \E i, k \in WithFinding(1..Len(result)) \ yielded :
           i # k /\ fstate[i] = "FINISHED" /\ fstate[k] = "FINISHED"


\* Region discovery gave a non-empty list for the current account.
DiscoverySucceeded == enabled_regions.kind = "list" /\ enabled_regions.items # <<>>

\* C19: during the scan neither outcome is printed; when the call returns
\* after a successful discovery exactly one of them has been printed, the
\* clean message if and only if no task returned a finding, otherwise the
\* header with at least one line.
C19_CleanOrReport ==
    DiscoverySucceeded =>
        /\ pc \in {"submit", "collect"} =>
               ~Printed("clean") /\ ~Printed("warning_header") /\ ~Reported
        /\ pc \in {"loop", "done"} =>
               /\ Reported
               /\ CountPrinted("clean") + CountPrinted("warning_header") = 1
               /\ Printed("clean") <=> WithFinding(1..Len(result)) = {}
               /\ Printed("clean") => ReportLines = <<>>
               /\ Printed("warning_header") => ReportLines # <<>>

\* C19 witness: every task of the account failed, one absorbed and the
\* others raised, and the clean message was printed.
C19_Witness ==
    /\ pc = "loop" /\ Printed("clean")
    /\ Len(result) >= 2
    /\ \A i \in 1..Len(result) : result[i].kind \in {"raise", "None"}
    /\ \E i \in 1..Len(result) : result[i].kind = "raise"
    /\ \E i \in 1..Len(result) : result[i].kind = "None"


\* The finding strings a dispatched task can return, over all the responses
\* of the provider.
FindingsByTask ==
    [t \in DispatchedTasks |->
        {r.s : r \in {x \in {check_single_service(c.resource_name, ConfigOf(c.resource_name),
                                                   c.region, c.resp) : c \in CallsOf(t)} :
                          x.kind = "str"}}]

\* C20: in a scan over pairwise distinct regions, the finding string a task
\* returns is one no other (check, region) task of the scan can return,
\* whatever the provider answers to that other task.
C20_FindingsDistinct ==
    (pc = "task_done" /\ ret.kind = "str") =>
        \A t \in DispatchedTasks :
            t # Task(call.resource_name, call.region) => ret.s \notin FindingsByTask[t]

\* C20 witness: a regional task returned a finding of one resource, and the
\* task of the same check in the other region can return one as well.
C20_Witness ==
    /\ pc = "task_done"
    /\ call.resource_name = "EBS Volumes" /\ call.region = "ap-northeast-2"
    /\ ret = Returned(RegionalFinding("EBS Volumes", 1, "ap-northeast-2"))
    /\ RegionalFinding("EBS Volumes", 1, "us-east-1")
           \in FindingsByTask[Task("EBS Volumes", "us-east-1")]

====
